---- MODULE Spec2Model ----
(***************************************************************************)
(* Multi-world runtime: WorldManager (multiworld/manager.py),              *)
(* WorldCommunicator (multiworld/communicator.py) and the WatchDog's       *)
(* monitor loop (multiworld/watchdog.py), as one state machine.            *)
(*                                                                         *)
(* Threads of the program and the actions that model them:                 *)
(*   event loop (cooperative tasks) : AddWorldCall, RemoveWorldCall,       *)
(*        InitializeWorldCall, InitResume, StartOp, Resume, WaitCheck,     *)
(*        Return, Cancel, CancelJoin, CleanupWorlds                        *)
(*   worker threads (executor)      : InitWorker (and the transport call   *)
(*        whose outcome Resume receives)                                   *)
(*   transport                      : WorkComplete                         *)
(*   watchdog monitor thread        : MonitorIter (one iteration as one    *)
(*        step), or MonitorBeat and MonitorReport (the iteration in        *)
(*        detail, with the store's answers)                                *)
(*   watchdog deadlock-check thread : DeadlockCheckThread,                 *)
(*        DeadlockCheckSignal, DeadlockCheck                               *)
(*   main thread, signal handler    : usr1_handler                         *)
(*                                                                         *)
(* Specifications: Spec (one task, every operation), FairSpec (Spec with   *)
(* the scheduling's fairness), ArgsSpec (every rank and world_size),       *)
(* ProbeSpec (the watchdog's threads), ConcSpec (two tasks, the event      *)
(* loop's thread), CancelSpec (ConcSpec with cancellation), WatchSpec (the  *)
(* monitor thread's heartbeat and check in detail), WatchLiveSpec          *)
(* (WatchSpec with an event loop that keeps running), SignalSpec           *)
(* (ProbeSpec with SIGUSR1 also sent from outside), PeerSpec (WatchSpec    *)
(* with the peers' counters: PeerBeat, PeerMonitorBeat).                   *)
(*                                                                         *)
(* The earlier, set_world-based manager (multiworld/world_manager.py) is   *)
(* modelled by LegacyAddWorld, LegacySetWorld, LegacyRemoveWorld and       *)
(* LegacyInitializeWorld under LegacySpec.                                 *)
(***************************************************************************)
EXTENDS Naturals, Sequences, FiniteSets, TLC

\* World names the application uses.
Names == {"world1", "world2"}

\* backend argument of initialize_world / add_world
Backends == {"gloo", "nccl"}

\* Cooperative tasks of the application that call the communicator.
Tasks == {"t1", "t2"}

\* The task whose operations the base specification follows.
MainTasks == {"t1"}

P2POps == {"send", "recv"}
Collectives == {"broadcast", "all_reduce", "reduce", "all_gather", "gather", "scatter"}
Ops == P2POps \cup Collectives

\* Variant: the last snippet of the list is missing.
_errors_to_handle_short ==
    << << "NCCL", "Error", "6" >>,
       << "NCCL", "communicator", "was", "aborted" >>,
       << "Connection", "reset", "by", "peer" >> >>

\* A text is the sequence of its words; a snippet is "in" a message when its
\* words occur in the message one after the other.
_errors_to_handle ==
    << << "NCCL", "Error", "6" >>,
       << "NCCL", "communicator", "was", "aborted" >>,
       << "Connection", "reset", "by", "peer" >>,
       << "Connection", "closed", "by", "peer" >> >>

\* Messages the transport's RuntimeError may carry.
ErrorMessages ==
    { << "NCCL", "Error", "6" >>,
      << "NCCL", "communicator", "was", "aborted", "on", "rank", "0" >>,
      << "[gloo]", "recv:", "Connection", "reset", "by", "peer" >>,
      << "Connection", "closed", "by", "peer", "[127.0.0.1]" >>,
      << "NCCL", "Error", "5" >>,
      << "Connection", "timed", "out" >> }

VARIABLES
    worlds,      \* keys of torch.distributed._worlds (dist_c10d_worlds)
    stores,      \* keys of WorldManager._worlds_stores
    send_fn,     \* WorldCommunicator._world_to_send_fn  (name -> function)
    recv_fn,     \* WorldCommunicator._world_to_recv_fn  (name -> function)
    broken,      \* WorldCommunicator._broken_world      (name -> bool)
    initpc,      \* per name: position of the initialize_world coroutine
    event_q,     \* WorldManager._event_q   (manager -> watchdog)
    action_q,    \* WorldManager._action_q  (watchdog -> cleanup task)
    myworlds,    \* keys of WatchDog._myworlds
    pc,          \* per task: position inside a communicator operation
    op,          \* per task: the operation in progress and the number of
                 \*   transport calls it has made
    work,        \* per task: the Work handle the transport returned
    res,         \* per task: how the operation ended
    ret,         \* outcome of the latest WorldManager call
    wargs,       \* per name: << rank, world_size >> of its initialize_world call,
                 \*   carried in the coroutine, the announcement and _myworlds
    trigger,     \* WatchDog._deadlock_check_trigger is set
    dlvar,       \* _deadlock_check_var
    dlpc,        \* position of _deadlock_check_thread
    dliter,      \* iterations of _deadlock_check done in the current round
    sigpending,  \* a SIGUSR1 is pending for the main thread
    alive,       \* the process has not been killed
    mpc,         \* position of _monitor_thread: "loop", "report" or "dead"
    tick,        \* _monitor_thread's tick, kept modulo UPDATES_PER_CHECK
    status,      \* per name: the ticks recorded in _myworlds[name][2]
    m_broken_worlds,    \* _monitor_thread's local broken_worlds
    read_ticks,  \* per name: what store.get gave _do_check in this iteration
    m_cleanup_entries,  \* _monitor_thread's local cleanup_entries
    mon_exc,     \* the exception that ended _monitor_thread
    peer_tick,   \* per name and rank: the counter a peer keeps in the store
    stale,       \* per name and rank: the checks made of the world since
                 \*   the peer last incremented its counter
    _worlds,     \* world_manager.WorldManager._worlds (name -> C10dWorld)
    _worlds_stores,  \* keys of world_manager.WorldManager._worlds_stores
    _current_world,  \* world_manager.WorldManager._current_world
    c10d_globals,    \* per global of dist_c10d: the C10dWorld it was taken from
    created,     \* C10dWorld objects constructed so far
    lret         \* outcome of the latest world_manager.WorldManager call

mgrVars  == << worlds, stores, initpc >>
commVars == << send_fn, recv_fn, broken >>
wdVars   == << event_q, action_q, myworlds >>
taskVars == << pc, op, work, res >>
probeVars == << dlvar, dlpc, dliter, sigpending, alive >>
monVars  == << mpc, tick, status, m_broken_worlds, read_ticks, m_cleanup_entries,
               mon_exc >>
peerVars == << peer_tick, stale >>
legacyVars == << _worlds, _worlds_stores, _current_world, c10d_globals,
                 created, lret >>
vars     == << worlds, stores, send_fn, recv_fn, broken, initpc,
               event_q, action_q, myworlds, pc, op, work, res, ret,
               wargs, trigger, dlvar, dlpc, dliter, sigpending, alive,
               mpc, tick, status, m_broken_worlds, read_ticks, m_cleanup_entries,
               mon_exc, peer_tick, stale, _worlds, _worlds_stores,
               _current_world, c10d_globals, created, lret >>

----------------------------------------------------------------------------
\* Python dict helpers: d[k] = v and del d[k] on a function with a finite domain.
DictSet(d, k, v) == [x \in DOMAIN d \cup {k} |-> IF x = k THEN v ELSE d[x]]
DictDel(d, k)    == [x \in DOMAIN d \ {k} |-> d[x]]
EmptyDict        == [x \in {} |-> TRUE]

NoOp   == [kind |-> "none", world |-> "none", fn |-> "none", calls |-> 0]
NoRes  == [exc |-> "none", msg |-> << >>]
NoCall == [fn |-> "none", exc |-> "none"]
NoArgs == << >>

----------------------------------------------------------------------------
\* WorldCommunicator

\* _set_functions: nccl gets the asynchronous primitives.
_set_functions(world_name, backend) ==
    /\ send_fn' = DictSet(send_fn, world_name, IF backend = "nccl" THEN "isend" ELSE "send")
    /\ recv_fn' = DictSet(recv_fn, world_name, IF backend = "nccl" THEN "irecv" ELSE "recv")

\* _reset_functions: a missing key is ignored.
_reset_functions(world_name) ==
    /\ send_fn' = DictDel(send_fn, world_name)
    /\ recv_fn' = DictDel(recv_fn, world_name)

comm_add_world(world_name, backend) ==
    /\ _set_functions(world_name, backend)
    /\ broken' = DictSet(broken, world_name, FALSE)

comm_remove_world(world_name) ==
    /\ _reset_functions(world_name)
    /\ broken' = DictSet(broken, world_name, TRUE)

\* Variant: a world without an entry counts as not broken.
is_broken_default_false(world_name) ==
    IF world_name \in DOMAIN broken THEN broken[world_name] ELSE FALSE

\* is_broken: a world without an entry counts as broken.
is_broken(world_name) ==
    IF world_name \in DOMAIN broken THEN broken[world_name] ELSE TRUE

\* Variant: a world without an entry gets the blocking primitive.
_get_fn_with_default(world_name, kind) ==
    CASE kind = "send" /\ world_name \in DOMAIN send_fn -> send_fn[world_name]
      [] kind = "recv" /\ world_name \in DOMAIN recv_fn -> recv_fn[world_name]
      [] OTHER -> kind

\* _get_fn: the function registered for a send or recv, "none" when the
\* lookup raises KeyError (turned into BrokenWorldException by the caller).
_get_fn(world_name, kind) ==
    CASE kind = "send" /\ world_name \in DOMAIN send_fn -> send_fn[world_name]
      [] kind = "recv" /\ world_name \in DOMAIN recv_fn -> recv_fn[world_name]
      [] OTHER -> "none"

\* error_snippet in error_message
Contains(snippet, message) ==
    \E i \in 1..Len(message) :
        /\ i + Len(snippet) - 1 <= Len(message)
        /\ SubSeq(message, i, i + Len(snippet) - 1) = snippet

\* Variant: any NCCL error number is taken for a broken world.
Classified_any_nccl_error(message) ==
    \/ \E i \in 1..Len(_errors_to_handle) : Contains(_errors_to_handle[i], message)
    \/ Contains(<< "NCCL", "Error" >>, message)

\* _handle_error: does the message carry one of the snippets?
Classified(message) ==
    \E i \in 1..Len(_errors_to_handle) : Contains(_errors_to_handle[i], message)

----------------------------------------------------------------------------
\* WorldManager

\* Variant: the test looks at the communicator's table instead of the registry.
add_world_raises_if_registered(world_name) == world_name \in DOMAIN send_fn

\* Variant: no test at all.
add_world_never_raises(world_name) == FALSE

\* add_world raises ValueError when the name is in dist_c10d_worlds.
add_world_raises(world_name) == world_name \in worlds

\* Variant: no test at all.
remove_world_never_raises(world_name) == FALSE

\* remove_world raises ValueError when the name is not in dist_c10d_worlds.
remove_world_raises(world_name) == world_name \notin worlds

\* add_world, the part after the "already exists" test.
add_world(world_name, backend) ==
    /\ worlds' = worlds \cup {world_name}
    /\ comm_add_world(world_name, backend)

\* Variant: the store entry is left in place.
remove_world_keeps_store(world_name) ==
    /\ comm_remove_world(world_name)
    /\ stores' = stores
    /\ worlds' = worlds

\* Variant: the store table is cleared instead of one entry being deleted.
remove_world_clears_stores(world_name) ==
    /\ comm_remove_world(world_name)
    /\ stores' = {}
    /\ worlds' = worlds

\* remove_world, the part after the "does not exist" test.  The entry of
\* dist_c10d_worlds is kept (its deletion is commented out in the source).
remove_world(world_name) ==
    /\ comm_remove_world(world_name)
    /\ stores' = stores \ {world_name}
    /\ worlds' = worlds

\* The arguments the send_recv example passes to initialize_world (the leader).
DefaultArgs == [rank |-> 0, size |-> 2]

\* The application calls add_world.
AddWorldCall(w, b) ==
    /\ IF add_world_raises(w)
         THEN /\ ret' = [fn |-> "add_world", exc |-> "ValueError: already exists"]
              /\ UNCHANGED << worlds, commVars >>
         ELSE /\ add_world(w, b)
              /\ ret' = [fn |-> "add_world", exc |-> "none"]
    /\ UNCHANGED << stores, initpc, wdVars, taskVars >>
    /\ UNCHANGED << wargs, trigger, probeVars, monVars, peerVars, legacyVars >>

\* The application calls remove_world.
RemoveWorldCall(w) ==
    /\ IF remove_world_raises(w)
         THEN /\ ret' = [fn |-> "remove_world", exc |-> "ValueError: does not exist"]
              /\ UNCHANGED << worlds, stores, commVars >>
         ELSE /\ remove_world(w)
              /\ ret' = [fn |-> "remove_world", exc |-> "none"]
    /\ UNCHANGED << initpc, wdVars, taskVars >>
    /\ UNCHANGED << wargs, trigger, probeVars, monVars, peerVars, legacyVars >>

\* initialize_world up to its await: add_world, then _init_process_group is
\* handed to a worker thread.
initialize_world(w, rank, world_size, b) ==
    /\ IF add_world_raises(w)
         THEN /\ ret' = [fn |-> "initialize_world", exc |-> "ValueError: already exists"]
              /\ UNCHANGED << worlds, commVars, initpc, wargs >>
         ELSE /\ add_world(w, b)
              /\ initpc' = [initpc EXCEPT ![w] = "rendezvous"]
              /\ wargs' = [wargs EXCEPT ![w] = << rank, world_size >>]
              /\ UNCHANGED ret
    /\ UNCHANGED << stores, wdVars, taskVars, trigger, probeVars, monVars, peerVars, legacyVars >>

\* The application calls initialize_world as that example does: rank 0
\* of a world of two.
InitializeWorldCall(w, b) == initialize_world(w, DefaultArgs.rank, DefaultArgs.size, b)

\* _init_process_group on the worker thread.  On success it records the
\* store; when TCPStore or init_process_group raises, nothing is recorded
\* and initialize_world re-raises the error when it resumes.
InitWorker(w, ok) ==
    /\ initpc[w] = "rendezvous"
    /\ IF ok
         THEN /\ stores' = stores \cup {w}
              /\ initpc' = [initpc EXCEPT ![w] = "joined"]
              /\ UNCHANGED ret
         ELSE /\ initpc' = [initpc EXCEPT ![w] = "none"]
              /\ ret' = [fn |-> "initialize_world", exc |-> "RuntimeError"]
              /\ UNCHANGED stores
    /\ wargs' = IF ok THEN wargs ELSE [wargs EXCEPT ![w] = NoArgs]
    /\ UNCHANGED << worlds, commVars, wdVars, taskVars, trigger, probeVars, monVars, peerVars, legacyVars >>

\* Variant: the watchdog is told without looking the store up.
InitResume_always_announces(w) ==
    /\ initpc[w] = "joined"
    /\ initpc' = [initpc EXCEPT ![w] = "none"]
    /\ event_q' = Append(event_q, w)
    /\ ret' = [fn |-> "initialize_world", exc |-> "none"]
    /\ UNCHANGED << worlds, stores, commVars, action_q, myworlds, taskVars,
                    wargs, trigger, probeVars, monVars, peerVars, legacyVars >>

\* initialize_world after its await: look the store up and tell the watchdog.
InitResume(w) ==
    /\ initpc[w] = "joined"
    /\ initpc' = [initpc EXCEPT ![w] = "none"]
    /\ IF w \in stores
         THEN /\ event_q' = Append(event_q, w)
              /\ ret' = [fn |-> "initialize_world", exc |-> "none"]
         ELSE /\ ret' = [fn |-> "initialize_world", exc |-> "KeyError"]
              /\ UNCHANGED event_q
    /\ wargs' = IF w \in stores THEN wargs ELSE [wargs EXCEPT ![w] = NoArgs]
    /\ UNCHANGED << worlds, stores, commVars, action_q, myworlds, taskVars,
                    trigger, probeVars, monVars, peerVars, legacyVars >>

\* One iteration of the _cleanup_worlds task: ValueError is ignored.
CleanupWorlds ==
    /\ action_q # << >>
    /\ action_q' = Tail(action_q)
    /\ IF remove_world_raises(Head(action_q))
         THEN UNCHANGED << worlds, stores, commVars >>
         ELSE remove_world(Head(action_q))
    /\ UNCHANGED << initpc, event_q, myworlds, taskVars, ret >>
    /\ UNCHANGED << wargs, trigger, probeVars, monVars, peerVars, legacyVars >>

----------------------------------------------------------------------------
\* WorldCommunicator operations

\* Variant: the loop looks at the work handle only.
_wait_work_ignores_flag(completed, world_name) ==
    IF completed THEN "return" ELSE "yield"

\* Variant: the broken flag is tested before the completion of the work.
_wait_work_flag_first(completed, world_name) ==
    IF world_name \notin DOMAIN broken THEN "KeyError"
    ELSE IF broken[world_name] THEN "BrokenWorldException"
    ELSE IF completed THEN "return"
    ELSE "yield"

\* _wait_work, one pass of its loop: the completion test comes first, then
\* the broken flag (a KeyError when the world has no entry), then the yield.
_wait_work(completed, world_name) ==
    IF completed THEN "return"
    ELSE IF world_name \notin DOMAIN broken THEN "KeyError"
    ELSE IF broken[world_name] THEN "BrokenWorldException"
    ELSE "yield"

\* What the transport function called on the worker thread may do: the
\* blocking send/recv return None, every other primitive returns a Work
\* handle (completed or not when first looked at); any of them may raise a
\* RuntimeError.
TransportOutcomes(fn) ==
    (IF fn \in {"send", "recv"}
        THEN {[type |-> "none", completed |-> TRUE, msg |-> << >>]}
        ELSE {[type |-> "work", completed |-> c, msg |-> << >>] : c \in BOOLEAN})
    \cup {[type |-> "error", completed |-> FALSE, msg |-> m] : m \in ErrorMessages}

\* Variant: a collective calls its primitive on the event loop's thread and
\* returns at once.
StartOp_direct_call(t, kind, w) ==
    /\ pc[t] = "idle"
    /\ IF kind \in P2POps /\ _get_fn(w, kind) = "none"
         THEN /\ pc' = [pc EXCEPT ![t] = "done"]
              /\ op' = [op EXCEPT ![t] = [kind |-> kind, world |-> w, fn |-> "none",
                                           calls |-> 0]]
              /\ res' = [res EXCEPT ![t] = [exc |-> "BrokenWorldException",
                                            msg |-> << "function", "for", kind, "not", "found" >>]]
         ELSE /\ pc' = [pc EXCEPT ![t] = IF kind \in P2POps THEN "submit" ELSE "done"]
              /\ op' = [op EXCEPT ![t] = [kind |-> kind, world |-> w,
                            fn |-> IF kind \in P2POps THEN _get_fn(w, kind) ELSE kind,
                            calls |-> 1]]
              /\ UNCHANGED res
    /\ UNCHANGED << mgrVars, commVars, wdVars, work, ret >>
    /\ UNCHANGED << wargs, trigger, probeVars, monVars, peerVars, legacyVars >>

\* The first lines of an operation, up to the await of run_in_executor: send
\* and recv look their function up (BrokenWorldException when it is gone),
\* the collectives call the transport primitive of their own name.
StartOp(t, kind, w) ==
    /\ pc[t] = "idle"
    /\ IF kind \in P2POps /\ _get_fn(w, kind) = "none"
         THEN /\ pc' = [pc EXCEPT ![t] = "done"]
              /\ op' = [op EXCEPT ![t] = [kind |-> kind, world |-> w, fn |-> "none",
                                           calls |-> 0]]
              /\ res' = [res EXCEPT ![t] = [exc |-> "BrokenWorldException",
                                            msg |-> << "function", "for", kind, "not", "found" >>]]
         ELSE /\ pc' = [pc EXCEPT ![t] = "submit"]
              /\ op' = [op EXCEPT ![t] = [kind |-> kind, world |-> w,
                            fn |-> IF kind \in P2POps THEN _get_fn(w, kind) ELSE kind,
                            calls |-> 1]]
              /\ UNCHANGED res
    /\ UNCHANGED << mgrVars, commVars, wdVars, work, ret >>
    /\ UNCHANGED << wargs, trigger, probeVars, monVars, peerVars, legacyVars >>

\* _handle_error for a RuntimeError with message m raised on world w: the
\* exception that leaves the operation.
_handle_error(t, m, w) ==
    IF Classified(m)
      THEN IF remove_world_raises(w)
             THEN /\ res' = [res EXCEPT ![t] = [exc |-> "ValueError", msg |-> << >>]]
                  /\ UNCHANGED << worlds, stores, commVars >>
             ELSE /\ remove_world(w)
                  /\ res' = [res EXCEPT ![t] = [exc |-> "BrokenWorldException", msg |-> m]]
      ELSE /\ res' = [res EXCEPT ![t] = [exc |-> "RuntimeError", msg |-> m]]
           /\ UNCHANGED << worlds, stores, commVars >>

\* Variant: an error without a classified snippet makes the operation call
\* the transport again.
Resume_retries(t, o) ==
    /\ pc[t] = "submit"
    /\ o \in TransportOutcomes(op[t].fn)
    /\ CASE o.type = "error" /\ Classified(o.msg) ->
              /\ _handle_error(t, o.msg, op[t].world)
              /\ pc' = [pc EXCEPT ![t] = "done"]
              /\ UNCHANGED << work, op >>
         [] o.type = "error" /\ ~ Classified(o.msg) ->
              /\ op' = [op EXCEPT ![t].calls = @ + 1]
              /\ UNCHANGED << worlds, stores, commVars, pc, work, res >>
         [] o.type = "none" ->
              /\ pc' = [pc EXCEPT ![t] = "done"]
              /\ res' = [res EXCEPT ![t] = NoRes]
              /\ UNCHANGED << worlds, stores, commVars, work, op >>
         [] o.type = "work" ->
              LET r == _wait_work(o.completed, op[t].world) IN
              /\ pc' = [pc EXCEPT ![t] = IF r = "yield" THEN "wait" ELSE "done"]
              /\ work' = [work EXCEPT ![t] = IF r = "yield" THEN "pending" ELSE "none"]
              /\ res' = [res EXCEPT ![t] =
                            IF r = "BrokenWorldException"
                              THEN [exc |-> r, msg |-> << "exception", "raised", "by", "watchdog" >>]
                              ELSE IF r = "KeyError" THEN [exc |-> r, msg |-> << >>]
                              ELSE NoRes]
              /\ UNCHANGED << worlds, stores, commVars, op >>
    /\ UNCHANGED << initpc, wdVars, ret >>
    /\ UNCHANGED << wargs, trigger, probeVars, monVars, peerVars, legacyVars >>

\* The worker thread's call has ended and the event loop resumes the
\* operation with its outcome o; with a Work handle the first pass of
\* _wait_work runs before the next yield.
Resume(t, o) ==
    /\ pc[t] = "submit"
    /\ o \in TransportOutcomes(op[t].fn)
    /\ CASE o.type = "error" ->
              /\ _handle_error(t, o.msg, op[t].world)
              /\ pc' = [pc EXCEPT ![t] = "done"]
              /\ UNCHANGED work
         [] o.type = "none" ->
              /\ pc' = [pc EXCEPT ![t] = "done"]
              /\ res' = [res EXCEPT ![t] = NoRes]
              /\ UNCHANGED << worlds, stores, commVars, work >>
         [] o.type = "work" ->
              LET r == _wait_work(o.completed, op[t].world) IN
              /\ pc' = [pc EXCEPT ![t] = IF r = "yield" THEN "wait" ELSE "done"]
              /\ work' = [work EXCEPT ![t] = IF r = "yield" THEN "pending" ELSE "none"]
              /\ res' = [res EXCEPT ![t] =
                            IF r = "BrokenWorldException"
                              THEN [exc |-> r, msg |-> << "exception", "raised", "by", "watchdog" >>]
                              ELSE IF r = "KeyError" THEN [exc |-> r, msg |-> << >>]
                              ELSE NoRes]
              /\ UNCHANGED << worlds, stores, commVars >>
    /\ UNCHANGED << initpc, wdVars, op, ret >>
    /\ UNCHANGED << wargs, trigger, probeVars, monVars, peerVars, legacyVars >>

\* The transport finishes the work behind a handle.
WorkComplete(t) ==
    /\ pc[t] = "wait"
    /\ work[t] = "pending"
    /\ work' = [work EXCEPT ![t] = "completed"]
    /\ UNCHANGED << mgrVars, commVars, wdVars, pc, op, res, ret >>
    /\ UNCHANGED << wargs, trigger, probeVars, monVars, peerVars, legacyVars >>

\* The task is scheduled again after asyncio.sleep(0): one more pass of
\* the _wait_work loop.
WaitCheck(t) ==
    /\ pc[t] = "wait"
    /\ LET r == _wait_work(work[t] = "completed", op[t].world) IN
         /\ pc' = [pc EXCEPT ![t] = IF r = "yield" THEN "wait" ELSE "done"]
         /\ work' = [work EXCEPT ![t] = IF r = "yield" THEN work[t] ELSE "none"]
         /\ res' = [res EXCEPT ![t] =
                       IF r = "BrokenWorldException"
                         THEN [exc |-> r, msg |-> << "exception", "raised", "by", "watchdog" >>]
                         ELSE IF r = "KeyError" THEN [exc |-> r, msg |-> << >>]
                         ELSE NoRes]
    /\ UNCHANGED << mgrVars, commVars, wdVars, op, ret >>
    /\ UNCHANGED << wargs, trigger, probeVars, monVars, peerVars, legacyVars >>

\* The caller has taken the result; the task is free for its next operation.
Return(t) ==
    /\ pc[t] = "done"
    /\ pc' = [pc EXCEPT ![t] = "idle"]
    /\ op' = [op EXCEPT ![t] = NoOp]
    /\ res' = [res EXCEPT ![t] = NoRes]
    /\ UNCHANGED << mgrVars, commVars, wdVars, work, ret >>
    /\ UNCHANGED << wargs, trigger, probeVars, monVars, peerVars, legacyVars >>

\* task.cancel() on a task inside an operation: CancelledError is thrown in
\* at the await the task is suspended on.  In the busy-await loop that is
\* asyncio.sleep(0) and the operation ends at once.  At the await of
\* run_in_executor the exception leaves the "with ThreadPoolExecutor()"
\* block, whose exit is shutdown(wait=True): the task stays on the event
\* loop's thread, joining the worker thread, until the transport call
\* returns.
Cancel(t) ==
    /\ pc[t] \in {"submit", "wait"}
    /\ IF pc[t] = "wait"
         THEN /\ pc' = [pc EXCEPT ![t] = "done"]
              /\ work' = [work EXCEPT ![t] = "none"]
              /\ res' = [res EXCEPT ![t] = [exc |-> "CancelledError", msg |-> << >>]]
         ELSE /\ pc' = [pc EXCEPT ![t] = "cancel_join"]
              /\ UNCHANGED << work, res >>
    /\ UNCHANGED << mgrVars, commVars, wdVars, op, ret >>
    /\ UNCHANGED << wargs, trigger, probeVars, monVars, peerVars, legacyVars >>

\* The transport call of a cancelled operation ends (its result or error
\* is dropped with the future), the join returns and CancelledError leaves
\* the operation.
CancelJoin(t) ==
    /\ pc[t] = "cancel_join"
    /\ pc' = [pc EXCEPT ![t] = "done"]
    /\ res' = [res EXCEPT ![t] = [exc |-> "CancelledError", msg |-> << >>]]
    /\ UNCHANGED << mgrVars, commVars, wdVars, op, work, ret >>
    /\ UNCHANGED << wargs, trigger, probeVars, monVars, peerVars, legacyVars >>

----------------------------------------------------------------------------
\* The event loop's thread

\* Variant: the transport function is called on the event loop's thread.
OpHoldsLoop_direct_call(t) == pc[t] \in {"submit", "cancel_join"}

\* Task t keeps the event loop's thread to itself: never while it awaits
\* run_in_executor or asyncio.sleep(0), only while it joins the worker
\* thread of a cancelled operation.
OpHoldsLoop(t) == pc[t] = "cancel_join"

\* Variant: _init_process_group is called on the event loop's thread.
InitHoldsLoop_direct_call(w) == initpc[w] = "rendezvous"

\* initialize_world of w keeps the event loop's thread to itself: never,
\* _init_process_group is awaited through run_in_executor.
InitHoldsLoop(w) == FALSE

\* The event loop can run a step of x (a task, the initialize_world of a
\* name, or anything else): nothing else is holding its thread.
LoopFree(x) ==
    /\ \A u \in Tasks \ {x} : ~ OpHoldsLoop(u)
    /\ \A w \in Names \ {x} : ~ InitHoldsLoop(w)

\* The steps of the cooperative tasks as the event loop schedules them.
LoopInitializeWorldCall(w, b) == LoopFree("loop") /\ InitializeWorldCall(w, b)
LoopInitResume(w)      == LoopFree(w) /\ InitResume(w)
LoopCleanupWorlds      == LoopFree("loop") /\ CleanupWorlds
LoopStartOp(t, kind, w) == LoopFree(t) /\ StartOp(t, kind, w)
LoopResume(t, o)       == LoopFree(t) /\ Resume(t, o)
LoopWaitCheck(t)       == LoopFree(t) /\ WaitCheck(t)
LoopReturn(t)          == LoopFree(t) /\ Return(t)
LoopCancel(t)          == LoopFree(t) /\ Cancel(t)

----------------------------------------------------------------------------
\* WatchDog

\* The orders in which a for loop may visit the members of a set.
Orders(S) == {s \in [1..Cardinality(S) -> S] : \A x \in S : \E i \in DOMAIN s : s[i] = x}

\* Variant: the monitor reports names it does not hold.
MonitorIter_any_world(broken_worlds, checked, order) ==
    LET got  == event_q # << >>
        mine == IF got THEN myworlds \cup {Head(event_q)} ELSE myworlds
        cleanup_entries == checked \cup broken_worlds
    IN  /\ order \in Orders(cleanup_entries)
        /\ event_q' = IF got THEN Tail(event_q) ELSE event_q
        /\ myworlds' = mine \ cleanup_entries
        /\ action_q' = action_q \o order
        /\ wargs' = [w \in Names |-> IF w \in cleanup_entries THEN NoArgs ELSE wargs[w]]
        /\ trigger' = (trigger \/ cleanup_entries # {})
        /\ UNCHANGED << mgrVars, commVars, taskVars, ret, probeVars, monVars, peerVars, legacyVars >>

\* One iteration of _monitor_thread.  It takes at most one announcement
\* from the event queue, increments its counter in every world (the worlds
\* whose store.add raises DistNetworkError are broken_worlds), runs
\* _do_check on a check tick (checked is what _do_check returns: the worlds
\* with a peer whose counter did not advance or could not be read), and for
\* every world found broken drops it and puts its name on the action queue.
MonitorIter(broken_worlds, checked, order) ==
    LET got  == event_q # << >>
        mine == IF got THEN myworlds \cup {Head(event_q)} ELSE myworlds
        cleanup_entries == checked \cup broken_worlds
    IN  /\ broken_worlds \subseteq mine
        /\ checked \subseteq mine
        /\ order \in Orders(cleanup_entries)
        /\ event_q' = IF got THEN Tail(event_q) ELSE event_q
        /\ myworlds' = mine \ cleanup_entries
        /\ action_q' = action_q \o order
        /\ wargs' = [w \in Names |-> IF w \in cleanup_entries THEN NoArgs ELSE wargs[w]]
        /\ trigger' = (trigger \/ cleanup_entries # {})
        /\ UNCHANGED << mgrVars, commVars, taskVars, ret, probeVars, monVars, peerVars, legacyVars >>

\* Rounds of the deadlock check after a world was found broken.
DEADLOCK_CHECK_ITERATIONS == 10

\* Variant: the thread starts its for loop without waiting for the trigger.
DeadlockCheckThread_without_trigger ==
    /\ dlpc = "wait"
    /\ trigger' = FALSE
    /\ dlpc' = "signal"
    /\ dliter' = 0
    /\ UNCHANGED << mgrVars, commVars, wdVars, taskVars, ret, wargs,
                    dlvar, sigpending, alive, monVars, peerVars, legacyVars >>

\* _deadlock_check_thread wakes on the trigger, clears it and starts its
\* for loop.
DeadlockCheckThread ==
    /\ dlpc = "wait"
    /\ trigger
    /\ trigger' = FALSE
    /\ dlpc' = "signal"
    /\ dliter' = 0
    /\ UNCHANGED << mgrVars, commVars, wdVars, taskVars, ret, wargs,
                    dlvar, sigpending, alive, monVars, peerVars, legacyVars >>

\* _deadlock_check up to its sleep: SIGUSR1 is sent to the own process.
DeadlockCheckSignal ==
    /\ dlpc = "signal"
    /\ sigpending' = TRUE
    /\ dlpc' = "sleep"
    /\ UNCHANGED << mgrVars, commVars, wdVars, taskVars, ret, wargs,
                    trigger, dlvar, dliter, alive, monVars, peerVars, legacyVars >>

\* usr1_handler: the main thread runs the handler of a pending SIGUSR1,
\* which it does only when it is not blocked in an uninterruptible call.
usr1_handler ==
    /\ sigpending
    /\ sigpending' = FALSE
    /\ dlvar' = 1
    /\ UNCHANGED << mgrVars, commVars, wdVars, taskVars, ret, wargs,
                    trigger, dlpc, dliter, alive, monVars, peerVars, legacyVars >>

\* Variant: the test is the wrong way round.
_deadlock_check_kills_if_handled(var) == var = 1

\* _deadlock_check, the test after the sleep.
_deadlock_check_kills(var) == var = 0

\* _deadlock_check after DEADLOCK_CHECK_WAIT_TIME: SIGKILL when the handler
\* has not set the variable, else the variable is reset and the for loop
\* goes on (or ends after DEADLOCK_CHECK_ITERATIONS rounds).
DeadlockCheck ==
    /\ dlpc = "sleep"
    /\ IF _deadlock_check_kills(dlvar)
         THEN /\ alive' = FALSE
              /\ UNCHANGED << dlvar, dlpc, dliter >>
         ELSE /\ dlvar' = 0
              /\ dlpc' = IF dliter + 1 < DEADLOCK_CHECK_ITERATIONS THEN "signal" ELSE "wait"
              /\ dliter' = IF dliter + 1 < DEADLOCK_CHECK_ITERATIONS THEN dliter + 1 ELSE 0
              /\ UNCHANGED alive
    /\ UNCHANGED << mgrVars, commVars, wdVars, taskVars, ret, wargs,
                    trigger, sigpending, monVars, peerVars, legacyVars >>

----------------------------------------------------------------------------
\* _monitor_thread in detail: the heartbeat, the periodic check and the
\* report, with the store's answers as inputs.  The store is an external
\* TCP service shared with the peers, so what store.add and store.get
\* answer is chosen by the environment.

\* A check is made every UPDATES_PER_CHECK iterations.
UPDATES_PER_CHECK == 10

\* The errors of torch.distributed the watchdog names; neither is a
\* subclass of the other.
StoreErrors == {"DistNetworkError", "DistStoreError"}

\* What store.add can do.
AddOutcomes == {"none"} \cup StoreErrors

\* The counter values a peer's key can hold.
TickValues == {0, 1, 2}

\* What store.get can do: a value, or one of the errors.
ReadOutcomes ==
    {[err |-> "none", val |-> v] : v \in TickValues}
        \cup {[err |-> e, val |-> 0] : e \in StoreErrors}

\* A rank whose key was not read.
NotRead == [err |-> "skip", val |-> 0]

NoExc == [world |-> "none", exc |-> "none"]

\* The ranks a member of a world can have.
PeerRanks == {0, 1, 2}

\* [WorldStatus() for i in range(size)]: every recorded tick starts at 0.
WorldStatusArray(size) == [i \in 1..size |-> 0]

\* The except clause around store.add.
add_catches(e) == e = "DistNetworkError"

\* The except clauses around store.get.
get_catches(e) == e \in {"DistNetworkError", "DistStoreError"}

\* The answers store.get can give for the keys of a world of world_size
\* members to the member my_rank: one per rank, none for its own key.
ReadSeqs(my_rank, world_size) ==
    {s \in [1..world_size -> ReadOutcomes \cup {NotRead}] :
        \A i \in 1..world_size : (s[i] = NotRead) <=> (i = my_rank + 1)}

\* One answer sequence for every world of S.
RECURSIVE ReadsOf(_)
ReadsOf(S) ==
    IF S = {} THEN {<< >>}
    ELSE LET w == CHOOSE x \in S : TRUE
         IN  {(w :> r) @@ f : f \in ReadsOf(S \ {w}),
                              r \in ReadSeqs(wargs[w][1], wargs[w][2])}

\* Variant: a counter that stands still is not noticed.
RECURSIVE _do_check_world_ignores_stall(_, _, _, _, _)
_do_check_world_ignores_stall(my_rank, world_status_array, answers, rank, seen) ==
    IF rank >= Len(world_status_array)
      THEN [broken |-> FALSE, status |-> world_status_array, seen |-> seen]
    ELSE IF my_rank = rank
      THEN _do_check_world_ignores_stall(my_rank, world_status_array, answers, rank + 1, seen)
    ELSE LET a == answers[rank + 1]
             seen2 == [seen EXCEPT ![rank + 1] = a]
         IN  IF a.err # "none" /\ get_catches(a.err)
               THEN [broken |-> TRUE, status |-> world_status_array, seen |-> seen2]
               ELSE _do_check_world_ignores_stall(my_rank,
                        [world_status_array EXCEPT ![rank + 1] = a.val],
                        answers, rank + 1, seen2)

\* The inner loop of _do_check for one world, from rank on: the own rank
\* is skipped, the first peer whose key cannot be read or whose counter
\* equals the recorded one makes the world broken and ends the loop, and
\* every other peer's counter is recorded.
RECURSIVE _do_check_world(_, _, _, _, _)
_do_check_world(my_rank, world_status_array, answers, rank, seen) ==
    IF rank >= Len(world_status_array)
      THEN [broken |-> FALSE, status |-> world_status_array, seen |-> seen]
    ELSE IF my_rank = rank
      THEN _do_check_world(my_rank, world_status_array, answers, rank + 1, seen)
    ELSE LET a == answers[rank + 1]
             seen2 == [seen EXCEPT ![rank + 1] = a]
         IN  IF a.err # "none" /\ get_catches(a.err)
               THEN [broken |-> TRUE, status |-> world_status_array, seen |-> seen2]
             ELSE IF world_status_array[rank + 1] = a.val
               THEN [broken |-> TRUE, status |-> world_status_array, seen |-> seen2]
               ELSE _do_check_world(my_rank,
                        [world_status_array EXCEPT ![rank + 1] = a.val],
                        answers, rank + 1, seen2)

\* _do_check is run when tick % UPDATES_PER_CHECK == 0.
_do_check_due(t) == t % UPDATES_PER_CHECK = 0

\* _monitor_thread from the top of its loop to the end of _do_check: it
\* takes at most one announcement, increments its own counter in every
\* world (adds[w] is what store.add does for w) and, on a check tick, reads
\* the peers' counters (answers[w] is what store.get does for w's keys).
\* An error of store.add that is not caught ends the thread.
MonitorBeat(adds, answers) ==
    LET got  == event_q # << >>
        new  == Head(event_q)
        mine == IF got THEN myworlds \cup {new} ELSE myworlds
        status0 == IF got
                     THEN [status EXCEPT ![new] = WorldStatusArray(wargs[new][2])]
                     ELSE status
        uncaught == {w \in mine : adds[w] # "none" /\ ~ add_catches(adds[w])}
        chk(w) == _do_check_world(wargs[w][1], status0[w], answers[w], 0,
                                  [i \in 1..Len(status0[w]) |-> NotRead])
    IN  /\ mpc = "loop"
        /\ event_q' = IF got THEN Tail(event_q) ELSE event_q
        /\ myworlds' = mine
        /\ IF uncaught # {}
             THEN /\ mpc' = "dead"
                  /\ \E w \in uncaught : mon_exc' = [world |-> w, exc |-> adds[w]]
                  /\ status' = status0
                  /\ UNCHANGED << m_broken_worlds, read_ticks, m_cleanup_entries >>
             ELSE /\ mpc' = "report"
                  /\ m_broken_worlds' = {w \in mine : adds[w] # "none"}
                  /\ IF _do_check_due(tick)
                       THEN /\ status' = [w \in Names |->
                                   IF w \in mine THEN chk(w).status ELSE status0[w]]
                            /\ read_ticks' = [w \in Names |->
                                   IF w \in mine THEN chk(w).seen ELSE << >>]
                            /\ m_cleanup_entries' =
                                   {w \in mine : chk(w).broken} \cup m_broken_worlds'
                       ELSE /\ status' = status0
                            /\ read_ticks' = [w \in Names |-> << >>]
                            /\ m_cleanup_entries' = m_broken_worlds'
                  /\ UNCHANGED mon_exc
        /\ UNCHANGED << mgrVars, commVars, action_q, taskVars, ret, wargs,
                        trigger, probeVars, tick >>

\* Variant: a reported world stays in _myworlds.
MonitorReport_keeps_world(order, delivered) ==
    /\ mpc = "report"
    /\ order \in Orders(m_cleanup_entries)
    /\ IF delivered
         THEN /\ action_q' = action_q \o order
              /\ trigger' = (trigger \/ m_cleanup_entries # {})
              /\ tick' = (tick + 1) % UPDATES_PER_CHECK
              /\ mpc' = "loop"
              /\ m_broken_worlds' = {}
              /\ read_ticks' = [w \in Names |-> << >>]
              /\ m_cleanup_entries' = {}
              /\ UNCHANGED << myworlds, status, wargs, alive >>
         ELSE /\ m_cleanup_entries # {}
              /\ alive' = FALSE
              /\ UNCHANGED << myworlds, status, wargs, action_q, trigger, tick,
                              mpc, m_broken_worlds, read_ticks, m_cleanup_entries >>
    /\ UNCHANGED << mgrVars, commVars, event_q, taskVars, ret, mon_exc,
                    dlvar, dlpc, dliter, sigpending, peerVars, legacyVars >>

\* Variant: a put that is not done in time is given up without a kill.
MonitorReport_drops_notice(order, delivered) ==
    /\ mpc = "report"
    /\ order \in Orders(m_cleanup_entries)
    /\ myworlds' = myworlds \ m_cleanup_entries
    /\ status' = [w \in Names |->
                     IF w \in m_cleanup_entries THEN << >> ELSE status[w]]
    /\ wargs' = [w \in Names |->
                     IF w \in m_cleanup_entries THEN NoArgs ELSE wargs[w]]
    /\ action_q' = IF delivered THEN action_q \o order ELSE action_q
    /\ trigger' = (trigger \/ m_cleanup_entries # {})
    /\ tick' = (tick + 1) % UPDATES_PER_CHECK
    /\ mpc' = "loop"
    /\ m_broken_worlds' = {}
    /\ read_ticks' = [w \in Names |-> << >>]
    /\ m_cleanup_entries' = {}
    /\ UNCHANGED << mgrVars, commVars, event_q, taskVars, ret, mon_exc,
                    dlvar, dlpc, dliter, sigpending, alive, peerVars, legacyVars >>

\* _monitor_thread from the loop over cleanup_entries to its sleep: every
\* broken world is dropped from _myworlds and its name is put on the action
\* queue through run_async; when a put is not done within
\* NOTICE_WAIT_TIMEOUT (delivered = FALSE) the process kills itself.
MonitorReport(order, delivered) ==
    /\ mpc = "report"
    /\ order \in Orders(m_cleanup_entries)
    /\ IF delivered
         THEN /\ myworlds' = myworlds \ m_cleanup_entries
              /\ status' = [w \in Names |->
                               IF w \in m_cleanup_entries THEN << >> ELSE status[w]]
              /\ wargs' = [w \in Names |->
                               IF w \in m_cleanup_entries THEN NoArgs ELSE wargs[w]]
              /\ action_q' = action_q \o order
              /\ trigger' = (trigger \/ m_cleanup_entries # {})
              /\ tick' = (tick + 1) % UPDATES_PER_CHECK
              /\ mpc' = "loop"
              /\ m_broken_worlds' = {}
              /\ read_ticks' = [w \in Names |-> << >>]
              /\ m_cleanup_entries' = {}
              /\ UNCHANGED alive
         ELSE /\ m_cleanup_entries # {}
              /\ alive' = FALSE
              /\ UNCHANGED << myworlds, status, wargs, action_q, trigger, tick,
                              mpc, m_broken_worlds, read_ticks, m_cleanup_entries >>
    /\ UNCHANGED << mgrVars, commVars, event_q, taskVars, ret, mon_exc,
                    dlvar, dlpc, dliter, sigpending, peerVars, legacyVars >>

----------------------------------------------------------------------------
\* ---- the set_world-based manager (multiworld/world_manager.py) ----

\* The globals of torch.distributed.distributed_c10d that set_world rebinds.
\* (GroupMember.WORLD is read from the _world global at the same time.)
C10dGlobals == {"_world", "_pg_map", "_pg_names", "_pg_group_ranks",
                "_pg_backend_config", "_group_count", "_backend"}

\* C10dWorld objects, in the order of their construction.
ObjectIds == {1, 2, 3}

\* The tables the transport starts with: they belong to no C10dWorld.
TorchOwn == 0

NoLegacyCall == [fn |-> "none", world |-> "none", exc |-> "none"]

\* C10dWorld(world): a new object with its own world, pg_map, pg_names,
\* pg_group_ranks, pg_backend_config, group_count and backend.
C10dWorld(n) == n + 1

\* set_world(world_name), from the manager's fields to its outcome.
set_world(registry, current, globals, world_name) ==
    IF world_name \notin DOMAIN registry
    THEN [exc |-> "ValueError", current |-> current, globals |-> globals]
    ELSE IF current = world_name
    THEN [exc |-> "none", current |-> current, globals |-> globals]
    ELSE [exc |-> "none", current |-> world_name,
          globals |-> [g \in C10dGlobals |-> registry[world_name]]]

Init ==
    /\ worlds = {}
    /\ stores = {}
    /\ send_fn = EmptyDict
    /\ recv_fn = EmptyDict
    /\ broken = EmptyDict
    /\ initpc = [w \in Names |-> "none"]
    /\ event_q = << >>
    /\ action_q = << >>
    /\ myworlds = {}
    /\ pc = [t \in Tasks |-> "idle"]
    /\ op = [t \in Tasks |-> NoOp]
    /\ work = [t \in Tasks |-> "none"]
    /\ res = [t \in Tasks |-> NoRes]
    /\ ret = NoCall
    /\ wargs = [w \in Names |-> NoArgs]
    /\ trigger = FALSE
    /\ dlvar = 0
    /\ dlpc = "wait"
    /\ dliter = 0
    /\ sigpending = FALSE
    /\ alive = TRUE
    /\ mpc = "loop"
    /\ tick = 0
    /\ status = [w \in Names |-> << >>]
    /\ m_broken_worlds = {}
    /\ read_ticks = [w \in Names |-> << >>]
    /\ m_cleanup_entries = {}
    /\ mon_exc = NoExc
    /\ peer_tick = [w \in Names |-> [r \in PeerRanks |-> 0]]
    /\ stale = [w \in Names |-> [r \in PeerRanks |-> 0]]
    /\ _worlds = EmptyDict
    /\ _worlds_stores = {}
    /\ _current_world = ""
    /\ c10d_globals = [g \in C10dGlobals |-> TorchOwn]
    /\ created = 0
    /\ lret = NoLegacyCall

Next ==
    \/ \E w \in Names, b \in Backends : AddWorldCall(w, b)
    \/ \E w \in Names : RemoveWorldCall(w)
    \/ \E w \in Names, b \in Backends : InitializeWorldCall(w, b)
    \/ \E w \in Names, ok \in BOOLEAN : InitWorker(w, ok)
    \/ \E w \in Names : InitResume(w)
    \/ CleanupWorlds
    \/ \E t \in MainTasks, kind \in Ops, w \in Names : StartOp(t, kind, w)
    \/ \E t \in MainTasks : \E o \in TransportOutcomes(op[t].fn) : Resume(t, o)
    \/ \E t \in MainTasks : WorkComplete(t)
    \/ \E t \in MainTasks : WaitCheck(t)
    \/ \E t \in MainTasks : Return(t)
    \/ \E b \in SUBSET Names, c \in SUBSET Names :
          \E o \in Orders(b \cup c) : MonitorIter(b, c, o)

Spec == Init /\ [][Next]_vars

\* Fairness the program's scheduling provides: the event loop keeps
\* running its ready tasks (the busy-await of an operation, the resumed
\* initialize_world, the cleanup task) and the monitor thread keeps
\* looping.  Nothing obliges the transport to return or to finish a work.
FairSpec ==
    /\ Spec
    /\ \A t \in MainTasks : WF_vars(WaitCheck(t))
    /\ \A w \in Names : WF_vars(InitResume(w))
    /\ WF_vars(CleanupWorlds)
    /\ WF_vars(MonitorIter({}, {}, << >>))

----------------------------------------------------------------------------
\* The manager and the watchdog under every rank and world_size the
\* application may pass to initialize_world.
Ranks == {0, 1, 2}
Sizes == {0, 1, 2}

ArgsNext ==
    \/ \E w \in Names, b \in Backends, rank \in Ranks, world_size \in Sizes :
          initialize_world(w, rank, world_size, b)
    \/ \E w \in Names, ok \in BOOLEAN : InitWorker(w, ok)
    \/ \E w \in Names : InitResume(w)
    \/ CleanupWorlds
    \/ \E b \in SUBSET Names, c \in SUBSET Names :
          \E o \in Orders(b \cup c) : MonitorIter(b, c, o)

ArgsSpec == Init /\ [][ArgsNext]_vars

----------------------------------------------------------------------------
\* The watchdog's two threads with the manager that feeds them, as long as
\* the process lives.
ProbeNext ==
    \/ alive /\ \E w \in Names, b \in Backends : InitializeWorldCall(w, b)
    \/ alive /\ \E w \in Names, ok \in BOOLEAN : InitWorker(w, ok)
    \/ alive /\ \E w \in Names : InitResume(w)
    \/ alive /\ CleanupWorlds
    \/ alive /\ \E b \in SUBSET Names, c \in SUBSET Names :
                   \E o \in Orders(b \cup c) : MonitorIter(b, c, o)
    \/ alive /\ DeadlockCheckThread
    \/ alive /\ DeadlockCheckSignal
    \/ alive /\ usr1_handler
    \/ alive /\ DeadlockCheck

ProbeSpec == Init /\ [][ProbeNext]_vars

\* SIGUSR1 sent to the process from outside (usr1_handler is registered for
\* the signal whoever sends it); a signal already pending absorbs it.
ExternalSignal ==
    /\ ~ sigpending
    /\ sigpending' = TRUE
    /\ UNCHANGED << mgrVars, commVars, wdVars, taskVars, ret, wargs,
                    trigger, dlvar, dlpc, dliter, alive, monVars, peerVars,
                    legacyVars >>

\* The watchdog's threads in a process that can also be sent SIGUSR1 by
\* others.
SignalNext ==
    \/ ProbeNext
    \/ alive /\ ExternalSignal

SignalSpec == Init /\ [][SignalNext]_vars

----------------------------------------------------------------------------
\* Two tasks, one per world, as in the all_reduce example; the loop's
\* thread is taken into account.
TaskWorld == [t \in Tasks |-> IF t = "t1" THEN "world1" ELSE "world2"]

ConcOps == {"send", "all_reduce"}

ConcErrorMessages ==
    { << "NCCL", "Error", "6" >>,
      << "Connection", "timed", "out" >> }

ConcOutcomes(fn) ==
    {o \in TransportOutcomes(fn) : o.type = "error" => o.msg \in ConcErrorMessages}

ConcNext ==
    \/ \E w \in Names, b \in Backends : LoopInitializeWorldCall(w, b)
    \/ \E w \in Names, ok \in BOOLEAN : InitWorker(w, ok)
    \/ \E w \in Names : LoopInitResume(w)
    \/ LoopCleanupWorlds
    \/ \E t \in Tasks, kind \in ConcOps : LoopStartOp(t, kind, TaskWorld[t])
    \/ \E t \in Tasks : \E o \in ConcOutcomes(op[t].fn) : LoopResume(t, o)
    \/ \E t \in Tasks : WorkComplete(t)
    \/ \E t \in Tasks : LoopWaitCheck(t)
    \/ \E t \in Tasks : LoopReturn(t)
    \/ \E b \in SUBSET Names, c \in SUBSET Names :
          \E o \in Orders(b \cup c) : MonitorIter(b, c, o)

ConcSpec == Init /\ [][ConcNext]_vars

\* The same with tasks being cancelled.
CancelNext ==
    \/ ConcNext
    \/ \E t \in Tasks : LoopCancel(t)
    \/ \E t \in Tasks : CancelJoin(t)

CancelSpec == Init /\ [][CancelNext]_vars

\* The watchdog's heartbeat and check in detail.  world1 is joined as
\* rank 1 of three (a peer on either side of the own rank), world2 as rank 0
\* of two; the store's answers are chosen by the environment, and worlds
\* are removed by the cleanup task only.
WatchArgs == ("world1" :> << 1, 3 >>) @@ ("world2" :> << 0, 2 >>)

WatchInitializeWorldCall(w) ==
    initialize_world(w, WatchArgs[w][1], WatchArgs[w][2], "gloo")

\* The worlds _monitor_thread holds once it has taken the next announcement.
Monitored == IF event_q # << >> THEN myworlds \cup {Head(event_q)} ELSE myworlds

WatchNext ==
    \/ alive /\ \E w \in Names : WatchInitializeWorldCall(w)
    \/ alive /\ \E w \in Names, ok \in BOOLEAN : InitWorker(w, ok)
    \/ alive /\ \E w \in Names : InitResume(w)
    \/ alive /\ CleanupWorlds
    \/ alive /\ \E adds \in [Monitored -> AddOutcomes] :
                   \E answers \in (IF _do_check_due(tick) THEN ReadsOf(Monitored)
                                                          ELSE {<< >>}) :
                       MonitorBeat(adds, answers) /\ UNCHANGED << peerVars, legacyVars >>
    \/ alive /\ \E order \in Orders(m_cleanup_entries), delivered \in BOOLEAN :
                   MonitorReport(order, delivered)

WatchSpec == Init /\ [][WatchNext]_vars

\* The same with an event loop that keeps running: a put of the monitor
\* thread is always done within NOTICE_WAIT_TIMEOUT, the cleanup task runs
\* when a name is waiting for it, and the monitor thread, while it lives,
\* gets from _do_check to its report.
WatchLiveNext ==
    \/ alive /\ \E w \in Names : WatchInitializeWorldCall(w)
    \/ alive /\ \E w \in Names, ok \in BOOLEAN : InitWorker(w, ok)
    \/ alive /\ \E w \in Names : InitResume(w)
    \/ alive /\ CleanupWorlds
    \/ alive /\ \E adds \in [Monitored -> AddOutcomes] :
                   \E answers \in (IF _do_check_due(tick) THEN ReadsOf(Monitored)
                                                          ELSE {<< >>}) :
                       MonitorBeat(adds, answers) /\ UNCHANGED << peerVars, legacyVars >>
    \/ alive /\ \E order \in Orders(m_cleanup_entries) : MonitorReport(order, TRUE)

WatchLiveSpec ==
    /\ Init /\ [][WatchLiveNext]_vars
    /\ WF_vars(CleanupWorlds)
    /\ WF_vars(\E order \in Orders(m_cleanup_entries) : MonitorReport(order, TRUE))

\* The watchdog with its peers: the counters the other members keep in the
\* store are part of the state, a read gives the counter's value or fails,
\* and a peer increments its counter when its own watchdog runs, or stops.

\* The ranks of the other members of world w.
PeerRanksOf(w) == {r \in PeerRanks : r < WatchArgs[w][2] /\ r # WatchArgs[w][1]}

\* A peer's _monitor_thread increments its counter in the world's store.
PeerBeat(w, r) ==
    /\ w \in stores
    /\ r \in PeerRanksOf(w)
    /\ peer_tick[w][r] + 1 \in TickValues
    /\ peer_tick' = [peer_tick EXCEPT ![w][r] = @ + 1]
    /\ stale' = [stale EXCEPT ![w][r] = 0]
    /\ UNCHANGED << mgrVars, commVars, wdVars, taskVars, ret, wargs, trigger,
                    probeVars, monVars, legacyVars >>

\* The answers store.get can give for the keys of w: each peer's counter,
\* or an error.
PeerReadSeqs(w) ==
    {s \in ReadSeqs(wargs[w][1], wargs[w][2]) :
        \A i \in DOMAIN s : s[i].err = "none" => s[i].val = peer_tick[w][i - 1]}

RECURSIVE PeerReadsOf(_)
PeerReadsOf(S) ==
    IF S = {} THEN {<< >>}
    ELSE LET w == CHOOSE x \in S : TRUE
         IN  {(w :> r) @@ f : f \in PeerReadsOf(S \ {w}), r \in PeerReadSeqs(w)}

\* MonitorBeat, counting for every peer the checks made of its world since
\* its last increment.
PeerMonitorBeat(adds, answers) ==
    /\ MonitorBeat(adds, answers)
    /\ stale' = IF _do_check_due(tick) /\ mpc' = "report"
                  THEN [w \in Names |-> [r \in PeerRanks |->
                           IF w \in Monitored /\ r \in PeerRanksOf(w)
                             THEN stale[w][r] + 1 ELSE stale[w][r]]]
                  ELSE stale
    /\ UNCHANGED << peer_tick, legacyVars >>

\* The world followed with its peers: the one with a peer on either side.
PeerNames == {"world1"}

PeerNext ==
    \/ alive /\ \E w \in PeerNames : WatchInitializeWorldCall(w)
    \/ alive /\ \E w \in PeerNames, ok \in BOOLEAN : InitWorker(w, ok)
    \/ alive /\ \E w \in PeerNames : InitResume(w)
    \/ alive /\ CleanupWorlds
    \/ alive /\ \E w \in PeerNames, r \in PeerRanks : PeerBeat(w, r)
    \/ alive /\ \E adds \in [Monitored -> AddOutcomes] :
                   \E answers \in (IF _do_check_due(tick) THEN PeerReadsOf(Monitored)
                                                          ELSE {<< >>}) :
                       PeerMonitorBeat(adds, answers)
    \/ alive /\ \E order \in Orders(m_cleanup_entries), delivered \in BOOLEAN :
                   MonitorReport(order, delivered)

PeerSpec == Init /\ [][PeerNext]_vars

----------------------------------------------------------------------------
\* Vocabulary of the properties

InFlight(t) == pc[t] \in {"submit", "wait"}
IsBroken(w) == w \in DOMAIN broken /\ broken[w]
NonBroken   == {w \in DOMAIN broken : ~broken[w]}
Raised(t, e) == pc[t] = "done" /\ res[t].exc = e

\* The classified substrings, as the specification lists them.
ClassifiedSnippets ==
    { << "NCCL", "Error", "6" >>,
      << "NCCL", "communicator", "was", "aborted" >>,
      << "Connection", "reset", "by", "peer" >>,
      << "Connection", "closed", "by", "peer" >> }

HasSnippet(m) ==
    \E sn \in ClassifiedSnippets : \E i \in 1..Len(m) :
        /\ i + Len(sn) - 1 <= Len(m)
        /\ \A j \in 1..Len(sn) : m[i + j - 1] = sn[j]

\* The step is the resumption of t's operation with a RuntimeError.
FaultStep(t, o) == Resume(t, o) /\ o.type = "error"

----------------------------------------------------------------------------
\* C1: an operation in flight on a world that is broken is eventually
\* released, whether it is in the submission call or in the busy-await loop,
\* also when the transport never returns and never completes the work
\* (stated for recv, whose world was registered when it started).
C1_BrokenWorldNeverHangs ==
    \A t \in Tasks :
        (InFlight(t) /\ op[t].kind = "recv" /\ IsBroken(op[t].world)) ~> (pc[t] = "done")

\* C2: in the busy-await loop with a work that is not completed and the
\* world's flag set, the next check exists and every way it can go raises
\* BrokenWorldException: it cannot yield again or end otherwise.
C2_RaisesAtNextCheck ==
    \A t \in Tasks :
        (pc[t] = "wait" /\ work[t] # "completed" /\ IsBroken(op[t].world)) =>
            /\ ENABLED WaitCheck(t)
            /\ ~ ENABLED (WaitCheck(t) /\ ~ Raised(t, "BrokenWorldException")')

C2_Witness ==
    \E t \in Tasks :
        /\ Raised(t, "BrokenWorldException")
        /\ res[t].msg = << "exception", "raised", "by", "watchdog" >>
        /\ IsBroken(op[t].world)

\* C3: an operation that ends on a world already marked broken never ends
\* in success.
C3_NoSuccessOnBrokenWorld ==
    [][\A t \in Tasks :
          (pc[t] # "done" /\ pc'[t] = "done" /\ IsBroken(op'[t].world))
              => res'[t].exc # "none"]_vars

\* C4: a step that removes world w (remove_world by the application, by
\* the cleanup task or by the fault path of an operation) or in which the
\* watchdog reports the worlds B leaves every other world as it was, and
\* takes exactly the failed worlds out of the non-broken set / the
\* monitored set.
KeepsWorld(v) ==
    /\ (v \in DOMAIN broken) = (v \in DOMAIN broken')
    /\ v \in DOMAIN broken => broken'[v] = broken[v]
    /\ (v \in DOMAIN send_fn) = (v \in DOMAIN send_fn')
    /\ v \in DOMAIN send_fn => send_fn'[v] = send_fn[v]
    /\ (v \in DOMAIN recv_fn) = (v \in DOMAIN recv_fn')
    /\ v \in DOMAIN recv_fn => recv_fn'[v] = recv_fn[v]
    /\ (v \in stores) = (v \in stores')
    /\ v \in myworlds => v \in myworlds'

RemovalStep(w) ==
    /\ w \in worlds
    /\ \/ ret'.fn = "remove_world" /\ RemoveWorldCall(w)
       \/ /\ action_q # << >> /\ Head(action_q) = w
          /\ Len(action_q') < Len(action_q)
          /\ CleanupWorlds
       \/ \E t \in Tasks :
             /\ pc[t] = "submit" /\ pc'[t] = "done" /\ op[t].world = w
             /\ res'[t].exc = "BrokenWorldException"
             /\ \E o \in TransportOutcomes(op[t].fn) :
                   /\ o.msg = res'[t].msg
                   /\ HasSnippet(o.msg) /\ FaultStep(t, o)

\* The worlds the watchdog reports in this step: the names the step appends
\* to the action queue (only the monitor thread appends to it).
Reported ==
    IF Len(action_q') > Len(action_q)
      THEN {action_q'[i] : i \in (Len(action_q) + 1)..Len(action_q')}
      ELSE {}

C4_OtherWorldsUntouched ==
    [][/\ \A w \in Names : RemovalStep(w) =>
             /\ \A v \in Names \ {w} : KeepsWorld(v)
             /\ NonBroken' = NonBroken \ {w}
       /\ Reported # {} =>
             /\ \A v \in Names \ Reported : KeepsWorld(v)
             /\ myworlds' \cap Reported = {}
             /\ NonBroken' = NonBroken]_vars

C4_Witness ==
    \E t \in Tasks :
        /\ IsBroken("world2") /\ "world2" \notin stores /\ "world2" \notin myworlds
        /\ NonBroken = {"world1"}
        /\ "world1" \in stores /\ "world1" \in myworlds
        /\ "world1" \in DOMAIN send_fn /\ "world1" \in DOMAIN recv_fn
        /\ Raised(t, "none") /\ op[t].world = "world1"

\* C5: when the transport call of an operation on a registered world w
\* raises an error whose message holds a classified substring, w is marked
\* broken, its store and its send/recv functions are gone, and the
\* operation raises BrokenWorldException carrying that message.
C5_ClassifiedFaultRemovesWorld ==
    [][\A t \in Tasks : (pc[t] = "submit" /\ pc'[t] = "done") =>
        \A o \in TransportOutcomes(op[t].fn) :
          (/\ op[t].world \in worlds
           /\ HasSnippet(o.msg) /\ FaultStep(t, o)) =>
              LET w == op[t].world IN
              /\ IsBroken(w)'
              /\ w \notin stores'
              /\ w \notin DOMAIN send_fn' /\ w \notin DOMAIN recv_fn'
              /\ Raised(t, "BrokenWorldException")'
              /\ res'[t].msg = o.msg]_vars

C5_Witness ==
    \E t \in Tasks :
        /\ Raised(t, "BrokenWorldException")
        /\ res[t].msg = << "Connection", "closed", "by", "peer", "[127.0.0.1]" >>
        /\ op[t].kind = "all_gather"
        /\ IsBroken(op[t].world)
        /\ op[t].world \notin stores

\* C6: when the message holds none of the classified substrings the same
\* error leaves the operation, and nothing of the world changes: flag,
\* store, functions, and nothing is queued for removal.
C6_UnclassifiedFaultPropagates ==
    [][\A t \in Tasks : (pc[t] = "submit" /\ pc'[t] = "done") =>
        \A o \in TransportOutcomes(op[t].fn) :
          (~ HasSnippet(o.msg) /\ FaultStep(t, o)) =>
              /\ Raised(t, "RuntimeError")'
              /\ res'[t].msg = o.msg
              /\ UNCHANGED << worlds, stores, send_fn, recv_fn, broken,
                              event_q, action_q, myworlds >>]_vars

C6_Witness ==
    \E t \in Tasks :
        /\ Raised(t, "RuntimeError")
        /\ res[t].msg = << "NCCL", "Error", "5" >>
        /\ op[t].world \in NonBroken
        /\ op[t].world \in stores
        /\ op[t].world \in DOMAIN send_fn

\* C7: once broken[w] is true it is true in every later state.
C7_BrokenIsMonotonic ==
    [][\A w \in Names : IsBroken(w) => IsBroken(w)']_vars

C7_Witness ==
    /\ IsBroken("world1") /\ IsBroken("world2")
    /\ ret = [fn |-> "initialize_world", exc |-> "ValueError: already exists"]

\* C8: a world marked broken stays broken and never again gets send/recv
\* functions or a rendezvous store.
C8_NeverActiveAgain ==
    [][\A w \in Names : IsBroken(w) =>
          /\ IsBroken(w)'
          /\ w \notin DOMAIN send_fn' /\ w \notin DOMAIN recv_fn'
          /\ w \in stores' => w \in stores]_vars

\* C9: add_world and initialize_world on a known name raise "already
\* exists" and change nothing else: no flag, function or store changes, no
\* rendezvous is started, nothing is announced.
C9_DuplicateIsRejected ==
    [][\A w \in Names, b \in Backends :
          (w \in worlds /\ (AddWorldCall(w, b) \/ InitializeWorldCall(w, b))) =>
              /\ ret'.exc = "ValueError: already exists"
              /\ UNCHANGED << worlds, stores, send_fn, recv_fn, broken, initpc,
                              event_q, action_q, myworlds, pc, op, work, res >>]_vars

C9_Witness ==
    /\ ret = [fn |-> "initialize_world", exc |-> "ValueError: already exists"]
    /\ worlds = {"world1"} /\ NonBroken = {"world1"} /\ stores = {"world1"}
    /\ initpc["world1"] = "none" /\ event_q = << "world1" >>

\* C10: remove_world on a name that was never created raises "does not
\* exist" and changes nothing else.
C10_RemoveUnknownIsRejected ==
    [][\A w \in Names :
          (w \notin worlds /\ RemoveWorldCall(w)) =>
              /\ ret'.exc = "ValueError: does not exist"
              /\ UNCHANGED << worlds, stores, send_fn, recv_fn, broken, initpc,
                              event_q, action_q, myworlds, pc, op, work, res >>]_vars

C10_Witness ==
    /\ ret = [fn |-> "remove_world", exc |-> "ValueError: does not exist"]
    /\ worlds = {"world1"} /\ DOMAIN broken = {"world1"}
    /\ NonBroken = {"world1"} /\ stores = {"world1"}

\* C11: when _init_process_group fails (store creation, rendezvous or
\* transport initialisation), the failed initialize_world leaves the name
\* unknown: no registry entry, no broken-flag entry, no send/recv
\* function, no store, and nothing announced to the watchdog.
C11_FailedInitRegistersNothing ==
    [][\A w \in Names :
          (initpc[w] = "rendezvous" /\ InitWorker(w, FALSE)) =>
              /\ ret'.exc # "none"
              /\ w \notin worlds'
              /\ w \notin DOMAIN broken'
              /\ w \notin DOMAIN send_fn' /\ w \notin DOMAIN recv_fn'
              /\ w \notin stores'
              /\ \A i \in 1..Len(event_q') : event_q'[i] # w]_vars

\* C12: initialize_world on a new name with rank >= world_size or
\* world_size < 1 is refused with an invalid-argument error and registers
\* no world.
C12_BadRankIsRejected ==
    [][\A w \in Names, b \in Backends, rank \in Ranks, world_size \in Sizes :
          (/\ w \notin worlds
           /\ rank >= world_size \/ world_size < 1
           /\ initialize_world(w, rank, world_size, b)) =>
              /\ ret'.exc = "InvalidArgument"
              /\ w \notin worlds'
              /\ w \notin DOMAIN broken']_vars

\* C13 (as the specification states it): every operation that ends on a
\* world name that was never created ends in an invalid-argument error.
C13_UnknownWorldIsInvalidArgument ==
    [][\A t \in Tasks :
          (pc[t] # "done" /\ pc'[t] = "done" /\ op'[t].world \notin worlds')
              => res'[t].exc = "InvalidArgument"]_vars

\* C13 (amended): send and recv on a world name that was never created
\* raise BrokenWorldException "function for <op> not found" before any
\* transport call; a collective makes no check of its own and hands the
\* name to the transport primitive of its kind.
C13_UnknownWorldIsBrokenWorld ==
    [][\A t \in Tasks :
          (pc[t] = "idle" /\ pc'[t] # "idle" /\ op'[t].world \notin worlds) =>
              IF op'[t].kind \in P2POps
                THEN /\ Raised(t, "BrokenWorldException")'
                     /\ res'[t].msg = << "function", "for", op'[t].kind, "not", "found" >>
                ELSE /\ pc'[t] = "submit"
                     /\ op'[t].fn = op'[t].kind]_vars

C13_Witness ==
    \E t \in Tasks :
        /\ Raised(t, "BrokenWorldException")
        /\ res[t].msg = << "function", "for", "recv", "not", "found" >>
        /\ op[t].world \notin worlds

\* C14: when remove_world returns for a registered world (called by the
\* application, by the cleanup task or by the fault path of an operation),
\* the world's send and recv functions are unregistered, its broken flag
\* is true and the manager holds no store for it.
C14_RemovedWorldIsInactive ==
    [][\A w \in Names : RemovalStep(w) =>
          /\ IsBroken(w)'
          /\ w \notin DOMAIN send_fn' /\ w \notin DOMAIN recv_fn'
          /\ w \notin stores'
          /\ RemoveWorldCall(w) => ret'.exc = "none"]_vars

C14_Witness ==
    \E t \in Tasks :
        /\ ret = [fn |-> "remove_world", exc |-> "none"]
        /\ pc[t] = "wait" /\ op[t].world = "world1"
        /\ "world1" \in myworlds
        /\ IsBroken("world1") /\ "world1" \notin stores
        /\ "world1" \notin DOMAIN send_fn /\ "world1" \notin DOMAIN recv_fn

\* C15: remove_world applied to a world that is already removed (flag
\* true, no functions, no store) changes nothing of the manager's and the
\* communicator's state; and every step of the cleanup
\* task takes the head of the action queue, whatever remove_world did
\* with it, and leaves the rest to be consumed.
Removed(w) ==
    /\ IsBroken(w)
    /\ w \notin DOMAIN send_fn /\ w \notin DOMAIN recv_fn
    /\ w \notin stores

C15_RemovalIsIdempotent ==
    [][/\ \A w \in Names : (Removed(w) /\ RemovalStep(w)) =>
             UNCHANGED << worlds, stores, send_fn, recv_fn, broken >>
       /\ Len(action_q') < Len(action_q) =>
             /\ action_q' = Tail(action_q)
             /\ ret' = ret]_vars

C15_Witness ==
    \E t \in Tasks :
        /\ worlds = {"world1"}
        /\ ret = [fn |-> "initialize_world", exc |-> "none"]
        /\ event_q = << >> /\ myworlds = {} /\ action_q = << >>
        /\ Raised(t, "BrokenWorldException") /\ HasSnippet(res[t].msg)
        /\ op[t].world = "world1"
        /\ Removed("world1")

\* C16: at the end of the wait of every round of the deadlock check, the
\* process is killed when _deadlock_check_var is still 0; when the handler
\* has set it, the process stays alive and the check goes on with its next
\* round (or, after the last round, returns to wait for the trigger).
C16_ProbeKillsIffNotHandled ==
    [][(dlpc = "sleep" /\ DeadlockCheck) =>
          IF dlvar = 0
            THEN ~ alive'
            ELSE /\ alive'
                 /\ \/ dlpc' = "signal" /\ dliter' = dliter + 1
                    \/ dlpc' = "wait" /\ dliter + 1 = DEADLOCK_CHECK_ITERATIONS]_vars

C16_Witness ==
    /\ ~ alive
    /\ dliter = 1
    /\ dlvar = 0
    /\ dlpc = "sleep"

\* The event loop can take task u through whatever comes next in its
\* operation: start one, take any outcome of the transport call, run the
\* next pass of the busy-await loop (which returns when the work is
\* completed), hand the result back.
CanProceed(u) ==
    /\ pc[u] = "idle" =>
          \A kind \in ConcOps : ENABLED LoopStartOp(u, kind, TaskWorld[u])
    /\ pc[u] = "submit" =>
          \A o \in ConcOutcomes(op[u].fn) : ENABLED LoopResume(u, o)
    /\ pc[u] = "wait" =>
          /\ ENABLED LoopWaitCheck(u)
          /\ work[u] = "completed" => ENABLED (LoopWaitCheck(u) /\ Raised(u, "none")')
    /\ pc[u] = "done" => ENABLED LoopReturn(u)

C19_CancelReleasesAwaiter ==
    [][\A t \in Tasks :
          (InFlight(t) /\ pc'[t] # pc[t] /\ LoopCancel(t)) =>
              /\ Raised(t, "CancelledError")'
              /\ ~ OpHoldsLoop(t)'
              /\ UNCHANGED << worlds, stores, send_fn, recv_fn, broken,
                              event_q, action_q, myworlds >>]_vars

\* C20: an operation calls its transport primitive at most once: once
\* when it has gone into the call, never before it, and the count stays at
\* one after every outcome of the call (a result, a classified or an
\* unclassified fault) until the operation has returned.
C20_TransportCalledOncePerOperation ==
    \A t \in Tasks :
        /\ op[t].calls <= 1
        /\ pc[t] \in {"submit", "wait"} => op[t].calls = 1
        /\ pc[t] = "idle" => op[t].calls = 0

C20_Witness ==
    \E t \in Tasks :
        /\ Raised(t, "RuntimeError")
        /\ res[t].msg = << "Connection", "timed", "out" >>
        /\ op[t].kind = "send" /\ op[t].fn = "isend"
        /\ op[t].calls = 1

\* C21: is_broken(name) is false exactly for a world that was added
\* (it is in the registry) and has not been removed since (its send and
\* recv functions are still registered), and true in every other case: a
\* name that was never added, and a world that was removed by the
\* application, by the fault path or on the watchdog's report.
C21_IsBrokenIffNotActive ==
    \A w \in Names :
        is_broken(w) = ~ (w \in worlds /\ w \in DOMAIN send_fn /\ w \in DOMAIN recv_fn)

C21_Witness ==
    /\ "world1" \in worlds /\ ~ is_broken("world1")
    /\ "world2" \in worlds /\ is_broken("world2")
    /\ ret = [fn |-> "remove_world", exc |-> "none"]

\* C22: initialize_world puts exactly one event for the world on the
\* watchdog's event queue when it succeeds, and it does so only after
\* init_process_group returned on the worker thread and the store handle
\* is recorded; an initialization that fails (the rendezvous raises, or
\* the store lookup raises) puts no event on the queue.  Nothing else
\* ever adds an event.
C22_AnnouncedOncePerSuccessfulInit ==
    [][ /\ Len(event_q') > Len(event_q) =>
            \E w \in Names :
                /\ event_q' = Append(event_q, w)
                /\ initpc[w] = "joined" /\ initpc'[w] = "none"
                /\ w \in stores
                /\ wargs[w] # NoArgs
                /\ ret' = [fn |-> "initialize_world", exc |-> "none"]
        /\ \A w \in Names :
               (initpc[w] # "none" /\ initpc'[w] = "none") =>
                   /\ ret'.fn = "initialize_world"
                   /\ IF ret'.exc = "none"
                        THEN event_q' = Append(event_q, w) /\ w \in stores
                        ELSE event_q' = event_q
      ]_vars

C22_Witness ==
    /\ event_q = << "world1" >>
    /\ worlds = {"world1", "world2"}
    /\ stores = {"world1"}
    /\ \A w \in Names : initpc[w] = "none"
    /\ ret = [fn |-> "initialize_world", exc |-> "RuntimeError"]

\* The names held in a queue.
Range(q) == {q[i] : i \in DOMAIN q}

\* C23: the watchdog only ever handles announced worlds.  A world enters
\* the watchdog's table only from the head of the event queue (which holds
\* nothing but the announcements of successful initializations, C22), the
\* names the watchdog puts on the action queue are names of its table, the
\* cleanup task takes from the action queue only what the watchdog put
\* there, and every name in the table or in one of the two queues is a
\* registered world whose initialize_world has returned.
C23_WatchdogHandlesOnlyAnnouncedWorlds ==
    [][ /\ myworlds' \ myworlds \subseteq
              (IF event_q # << >> THEN {Head(event_q)} ELSE {})
        /\ myworlds' # myworlds /\ myworlds \subseteq myworlds' =>
              event_q # << >> /\ event_q' = Tail(event_q)
        /\ Reported \subseteq
              myworlds \cup (IF event_q # << >> THEN {Head(event_q)} ELSE {})
        /\ Len(action_q') < Len(action_q) => action_q' = Tail(action_q)
        /\ \A w \in myworlds' \cup Range(event_q') \cup Range(action_q') :
              w \in worlds' /\ initpc'[w] = "none"
      ]_vars

C23_Witness ==
    /\ myworlds = {"world1"}
    /\ action_q = << "world2" >>
    /\ worlds = {"world1", "world2"}
    /\ ret = [fn |-> "initialize_world", exc |-> "none"]

\* C24: when remove_world(w) has returned (called by the application, by
\* the fault path of an operation or by the cleanup task) the watchdog has
\* been told: w is neither in the watchdog's table (where it is
\* heartbeated and checked, and where its store handle is held) nor
\* waiting in the event queue with its store handle.
C24_RemovalInformsWatchdog ==
    [][ \A w \in Names :
            RemovalStep(w) => w \notin myworlds' /\ w \notin Range(event_q') ]_vars

\* C25: the manager holds a store entry only for a world that is active
\* (registered and not removed), and every world that was announced after
\* a successful initialization and has not been removed has its store
\* entry.
C25_StoreEntryIffActive ==
    \A w \in Names :
        /\ w \in stores => w \in NonBroken
        /\ (w \in myworlds \cup Range(event_q) /\ w \in NonBroken) => w \in stores

\* The peers of the member my_rank in a status array, as ranks.
Peers(my_rank, world_status_array) ==
    {r \in 0..(Len(world_status_array) - 1) : r # my_rank}

\* The status array _do_check works on for w in this step: the recorded
\* one, or a fresh one when w is taken from the event queue in this step.
StatusAtCheck(w) ==
    IF w \in myworlds THEN status[w] ELSE WorldStatusArray(wargs[w][2])

\* A step of _monitor_thread that runs _do_check.
CheckStep == mpc = "loop" /\ mpc' = "report" /\ _do_check_due(tick)

\* C26: at a check (made when the tick is a multiple of UPDATES_PER_CHECK)
\* the watchdog finds w broken exactly when, for some peer rank other than
\* its own, the read of the peer's counter raised a store or network error
\* or gave the value recorded at the previous check; the own rank's key is
\* never read; a world all of whose peers' counters differ from the
\* recorded ones is not found broken by the check (only a failed increment
\* of the own counter can still put it among the worlds to clean up), and
\* its recorded values become the values read.  On every other tick no
\* key is read and no recorded value changes.
C26_CheckFindsStalledOrUnreadablePeers ==
    [][ /\ CheckStep =>
            \A w \in myworlds' :
                LET old  == StatusAtCheck(w)
                    me   == wargs[w][1]
                    bad(r) == \/ read_ticks'[w][r + 1].err \in StoreErrors
                              \/ /\ read_ticks'[w][r + 1].err = "none"
                                 /\ read_ticks'[w][r + 1].val = old[r + 1]
                    found == \E r \in Peers(me, old) : bad(r)
                IN  /\ Len(read_ticks'[w]) = Len(old)
                    /\ me < Len(old) => read_ticks'[w][me + 1] = NotRead
                    /\ found => w \in m_cleanup_entries'
                    /\ (w \in m_cleanup_entries' /\ w \notin m_broken_worlds') => found
                    /\ ~ found =>
                          \A r \in Peers(me, old) :
                              /\ read_ticks'[w][r + 1].err = "none"
                              /\ status'[w][r + 1] = read_ticks'[w][r + 1].val
                              /\ status'[w][r + 1] # old[r + 1]
        /\ (mpc = "loop" /\ mpc' = "report" /\ ~ _do_check_due(tick)) =>
              /\ \A w \in myworlds : status'[w] = status[w]
              /\ \A w \in Names : read_ticks'[w] = << >>
              /\ m_cleanup_entries' = m_broken_worlds'
      ]_vars

\* A check has found world2 broken through a peer whose counter stood
\* still, and has passed world1, recording both of its peers' counters.
C26_Witness ==
    /\ mpc = "report"
    /\ myworlds = {"world1", "world2"}
    /\ m_cleanup_entries = {"world2"}
    /\ m_broken_worlds = {}
    /\ read_ticks["world2"] = << NotRead, [err |-> "none", val |-> 1] >>
    /\ status["world2"] = << 0, 1 >>
    /\ status["world1"] = << 2, 0, 1 >>

\* C27: a DistNetworkError or DistStoreError raised by a store access for
\* w, be it the increment of the own counter (store.add) or the read of a
\* peer's counter (store.get), makes w one of the worlds to clean up, whose
\* names the watchdog then puts on the action queue, and the monitor
\* thread goes on with its loop over the worlds it still holds.
C27_StoreErrorsAreReported ==
    [][ /\ (mpc = "loop" /\ mpc' # "loop") =>
              /\ mpc' = "report"
              /\ mon_exc' = NoExc
              /\ m_broken_worlds' \subseteq m_cleanup_entries'
              /\ \A w \in myworlds' :
                    (\E i \in DOMAIN read_ticks'[w] :
                         read_ticks'[w][i].err \in StoreErrors)
                        => w \in m_cleanup_entries'
        /\ (mpc = "report" /\ mpc' # "report") =>
              /\ mpc' = "loop"
              /\ Reported = m_cleanup_entries
              /\ myworlds' = myworlds \ m_cleanup_entries
      ]_vars

\* C28: every world the watchdog declares broken (it is among the worlds
\* the monitor thread is about to report, or its name is on the action
\* queue) is eventually removed by the cleanup task: with an event loop
\* that keeps running, the world's broken flag becomes true and its store
\* entry is dropped.
C28_DeclaredBrokenIsEventuallyRemoved ==
    \A w \in Names :
        (w \in m_cleanup_entries \/ w \in Range(action_q))
            ~> (IsBroken(w) /\ w \notin stores /\ w \notin Range(action_q))

\* The cleanup task has removed a world the watchdog reported after a
\* failed read, while the other world is still monitored.
C28_Witness ==
    /\ IsBroken("world1") /\ "world1" \notin stores
    /\ "world1" \notin myworlds /\ action_q = << >>
    /\ "world2" \in NonBroken /\ "world2" \in myworlds
    /\ mpc = "loop" /\ tick = 1
    /\ trigger

\* C29: the deadlock check runs only after the watchdog has reported a
\* broken world (the trigger is set only in a step that reports, the
\* thread leaves its wait only on a set trigger, and SIGUSR1 is sent only
\* from inside the thread's for loop); a round makes at most
\* DEADLOCK_CHECK_ITERATIONS iterations and then returns to the wait; and
\* the process is killed only by a test that finds the signal unhandled,
\* so a round whose signals are all handled in time ends with the process
\* alive.
C29_ProbeIsTriggeredAndBounded ==
    [][ /\ (~ trigger /\ trigger') => Reported # {}
        /\ (dlpc = "wait" /\ dlpc' # "wait") =>
              trigger /\ ~ trigger' /\ dlpc' = "signal" /\ dliter' = 0
        /\ (~ sigpending /\ sigpending') =>
              dlpc = "signal" /\ dlpc' = "sleep" /\ dliter < DEADLOCK_CHECK_ITERATIONS
        /\ (dlpc = "sleep" /\ dlpc' = "signal") =>
              dliter' = dliter + 1 /\ dliter' < DEADLOCK_CHECK_ITERATIONS
        /\ (dlpc = "sleep" /\ dlvar = 1 /\ dlvar' = 0) =>
              /\ alive'
              /\ dliter + 1 = DEADLOCK_CHECK_ITERATIONS => dlpc' = "wait" /\ dliter' = 0
        /\ (alive /\ ~ alive') => dlpc = "sleep" /\ dlvar = 0
      ]_vars

\* A round of the deadlock check is in its last iteration, all earlier
\* signals having been handled, and the last one has been handled too.
C29_Witness ==
    /\ dlpc = "sleep"
    /\ dliter = DEADLOCK_CHECK_ITERATIONS - 1
    /\ dlvar = 1
    /\ alive
    /\ ~ trigger
    /\ action_q # << >>

\* C30: while an initialize_world call is running init_process_group on
\* its worker thread, the deadlock check sends no SIGUSR1, whether the
\* round starts then or was started before and has iterations left.
C30_NoSignalDuringRendezvous ==
    [][ (dlpc = "signal" /\ dlpc' = "sleep" /\ sigpending') =>
            \A w \in Names : initpc[w] # "rendezvous" ]_vars

\* C31: every iteration of the deadlock check resets _deadlock_check_var
\* to 0 before it sends SIGUSR1: at the moment the signal is sent the
\* variable is 0, so that only a handler run after the signal can make the
\* iteration pass.
C31_VarIsZeroWhenSignalIsSent ==
    [][ (dlpc = "signal" /\ dlpc' = "sleep") => dlvar = 0 ]_vars

\* C32: a worker thread of the executor never writes world state: the step
\* in which the worker thread of an initialize_world finishes
\* _init_process_group leaves the manager's store map, the registry of
\* worlds, the broken map and the send/recv function tables as they were.
C32_WorkerThreadsWriteNoWorldState ==
    [][ \A w \in Names :
            (initpc[w] = "rendezvous" /\ initpc'[w] # "rendezvous") =>
                UNCHANGED << worlds, stores, send_fn, recv_fn, broken >> ]_vars

\* C33: an operation that returns success has yielded to the event loop at
\* least once between its invocation and its return: the step that invokes
\* an operation either suspends it at the await of run_in_executor or ends
\* it with an exception, and an operation ends with success only in a step
\* that resumes it from an await, also when the work handle is completed
\* at the first look.
C33_SuccessOnlyAfterAYield ==
    [][ \A t \in Tasks :
            /\ (pc[t] = "idle" /\ pc'[t] # "idle") =>
                  \/ pc'[t] = "submit"
                  \/ pc'[t] = "done" /\ res'[t].exc # "none"
            /\ (pc[t] # "done" /\ pc'[t] = "done" /\ res'[t].exc = "none") =>
                  pc[t] \in {"submit", "wait"}
      ]_vars

\* A broadcast has returned success without ever waiting in the busy-await
\* loop's yield.
C33_Witness ==
    /\ pc["t1"] = "done"
    /\ op["t1"].kind = "broadcast" /\ op["t1"].calls = 1
    /\ res["t1"].exc = "none"
    /\ work["t1"] = "none"

\* The worlds this member's watchdog has declared broken: their names are
\* on the action queue or the cleanup task has already removed them.
Declared == {w \in Names : w \in Range(action_q) \/ IsBroken(w)}

\* C34: a member whose watchdog has declared a world broken has dropped it
\* from its monitored worlds and never increments its own counter for it
\* again (so that the other members see the counter stand still and
\* declare the world broken in their turn), while its monitor thread goes
\* on incrementing, once per tick, its counters in the worlds it still
\* monitors: every iteration completes its round of increments.
C34_DeclaringMemberKeepsBeatingOtherWorlds ==
    [][ Declared # {} =>
            /\ Declared \cap myworlds' = {}
            /\ (mpc = "loop" /\ mpc' # "loop") => mpc' = "report"
      ]_vars

\* The message of the BrokenWorldException raised by _wait_work.
WatchdogMessage == << "exception", "raised", "by", "watchdog" >>

\* C35: an operation returns success only when the transport call returned
\* without a work handle or the handle reported completion; the completion
\* test comes before the test of the broken flag, so a pass of the
\* busy-await loop that finds the handle completed returns success even
\* when the world has been marked broken in the meantime, and the loop
\* raises BrokenWorldException only at a pass where the handle is not
\* completed and the flag is true.
C35_CompletionTestPrecedesBrokenTest ==
    [][ \A t \in Tasks :
            /\ (pc[t] = "wait" /\ pc'[t] = "done") =>
                  IF work[t] = "completed"
                    THEN res'[t].exc = "none"
                    ELSE \/ /\ res'[t] = [exc |-> "BrokenWorldException", msg |-> WatchdogMessage]
                            /\ IsBroken(op[t].world)
                         \/ /\ res'[t].exc = "KeyError"
                            /\ op[t].world \notin DOMAIN broken
            /\ (pc[t] = "submit" /\ pc'[t] = "done" /\ res'[t].exc = "none") =>
                  \E o \in TransportOutcomes(op[t].fn) :
                      /\ o.type = "none" \/ (o.type = "work" /\ o.completed)
                      /\ Resume(t, o)
            /\ (pc[t] # "done" /\ pc'[t] = "done" /\ res'[t].exc = "BrokenWorldException"
                    /\ res'[t].msg = WatchdogMessage) =>
                  /\ IsBroken(op[t].world)
                  /\ pc[t] = "wait" => work[t] = "pending"
                  /\ pc[t] = "submit" =>
                        Resume(t, [type |-> "work", completed |-> FALSE, msg |-> << >>])
      ]_vars

\* A broadcast has returned success on a world that was removed while the
\* operation was waiting for its work.
C35_Witness ==
    /\ pc["t1"] = "done"
    /\ op["t1"].kind = "broadcast"
    /\ res["t1"].exc = "none"
    /\ IsBroken(op["t1"].world)
    /\ ret = [fn |-> "remove_world", exc |-> "none"]

\* C36: the names of broken worlds reach the action queue only from the
\* monitor thread's report, which hands each put to the event loop through
\* run_async, and no notice is lost without trace: the worlds found broken
\* stay the thread's cleanup entries until the report, and the report
\* either puts every one of them on the action queue or, when a put is not
\* done within NOTICE_WAIT_TIMEOUT, kills the process.
C36_NoticeIsEnqueuedOrProcessKilled ==
    [][ /\ Len(action_q') > Len(action_q) => mpc = "report" /\ mpc' = "loop"
        /\ (mpc = "report" /\ mpc' = "report" /\ alive') =>
              m_cleanup_entries' = m_cleanup_entries
        /\ (mpc = "report" /\ (mpc' # "report" \/ alive' # alive)) =>
              \/ /\ alive' /\ mpc' = "loop"
                 /\ Reported = m_cleanup_entries
                 /\ Len(action_q') = Len(action_q) + Cardinality(m_cleanup_entries)
                 /\ SubSeq(action_q', 1, Len(action_q)) = action_q
              \/ /\ ~ alive'
                 /\ m_cleanup_entries # {}
      ]_vars

\* One world's notice has been put on the action queue; at the next
\* world's notice the event loop did not take the put in time and the
\* process has been killed.
C36_Witness ==
    /\ ~ alive
    /\ mpc = "report"
    /\ m_cleanup_entries = {"world1"}
    /\ action_q = << "world2" >>

\* C37: the watchdog puts each world on the action queue at most once: a
\* report holds every name once, also the name of a world found broken by
\* the increment and by the check of the same iteration; a reported world
\* is dropped from the monitored worlds; and a world that has been
\* declared broken is never announced, monitored or reported again.
C37_EachWorldReportedAtMostOnce ==
    [][ /\ Len(action_q') > Len(action_q) =>
              /\ Len(action_q') = Len(action_q) + Cardinality(Reported)
              /\ Reported \cap myworlds' = {}
        /\ Reported \cap Declared = {}
        /\ Declared \cap (myworlds' \cup Range(event_q')) = {}
      ]_vars

\* world1 has been reported; world2 has just been found broken both by its
\* increment (DistNetworkError) and by the check (a peer's key could not be
\* read), and is a single cleanup entry.
C37_Witness ==
    /\ mpc = "report"
    /\ action_q = << "world1" >>
    /\ m_broken_worlds = {"world2"}
    /\ read_ticks["world2"] = << NotRead, [err |-> "DistStoreError", val |-> 0] >>
    /\ m_cleanup_entries = {"world2"}

\* C38: when a peer of a monitored world has stopped incrementing its
\* counter, the watchdog declares the world broken no later than at the
\* second check that follows the peer's last increment: a check of the
\* world that finds a peer for which a check has already been made since
\* its last increment puts the world among the cleanup entries.  And at
\* the first check after the world was announced, peers that have all
\* incremented their counters at least once are not taken for dead: the
\* world is a cleanup entry then only if a store access raised.
C38_StalledPeerFoundBySecondCheck ==
    [][ CheckStep =>
            \A w \in myworlds' :
                LET old == StatusAtCheck(w)
                    first == old = WorldStatusArray(wargs[w][2])
                    failed == \/ w \in m_broken_worlds'
                              \/ \E i \in DOMAIN read_ticks'[w] :
                                     read_ticks'[w][i].err \in StoreErrors
                IN  /\ (\E r \in PeerRanksOf(w) : stale[w][r] >= 1) =>
                          w \in m_cleanup_entries'
                    /\ (first /\ ~ failed /\ \A r \in PeerRanksOf(w) : peer_tick[w][r] >= 1) =>
                          /\ w \notin m_cleanup_entries'
                          /\ \A r \in PeerRanksOf(w) : status'[w][r + 1] = peer_tick[w][r]
      ]_vars

\* Rank 0 of world1 incremented its counter once and stopped, rank 2 went
\* on; the first check after that recorded both counters, and the second
\* has found rank 0's counter unchanged and declared the world broken.
C38_Witness ==
    /\ mpc = "report"
    /\ m_cleanup_entries = {"world1"}
    /\ m_broken_worlds = {}
    /\ peer_tick["world1"][0] = 1 /\ stale["world1"][0] = 2
    /\ peer_tick["world1"][2] = 2 /\ stale["world1"][2] = 1
    /\ status["world1"] = << 1, 0, 1 >>
    /\ read_ticks["world1"] = << [err |-> "none", val |-> 1], NotRead, NotRead >>

\* ---- the set_world-based manager's calls (multiworld/world_manager.py) ----

modernVars == << mgrVars, commVars, wdVars, taskVars, ret, wargs, trigger,
                 probeVars, monVars, peerVars >>

\* add_world(world_name) with the default world argument.
LegacyAddWorld(w) ==
    /\ IF w \in DOMAIN _worlds
       THEN /\ lret' = [fn |-> "add_world", world |-> w, exc |-> "ValueError"]
            /\ UNCHANGED << _worlds, created >>
       ELSE /\ created + 1 \in ObjectIds
            /\ _worlds' = DictSet(_worlds, w, C10dWorld(created))
            /\ created' = created + 1
            /\ lret' = [fn |-> "add_world", world |-> w, exc |-> "none"]
    /\ UNCHANGED << _worlds_stores, _current_world, c10d_globals, modernVars >>

\* set_world(world_name), called by the application.
LegacySetWorld(w) ==
    LET r == set_world(_worlds, _current_world, c10d_globals, w) IN
    /\ _current_world' = r.current
    /\ c10d_globals' = r.globals
    /\ lret' = [fn |-> "set_world", world |-> w, exc |-> r.exc]
    /\ UNCHANGED << _worlds, _worlds_stores, created, modernVars >>

\* remove_world(world_name): the store is deleted first (KeyError when the
\* world never got one), then set_world, then the registry entry goes;
\* destroy_process_group() empties the tables the globals are bound to and
\* rebinds none of them.
LegacyRemoveWorld(w) ==
    IF w \notin DOMAIN _worlds
    THEN /\ lret' = [fn |-> "remove_world", world |-> w, exc |-> "ValueError"]
         /\ UNCHANGED << _worlds, _worlds_stores, _current_world, c10d_globals,
                         created, modernVars >>
    ELSE IF w \notin _worlds_stores
    THEN /\ lret' = [fn |-> "remove_world", world |-> w, exc |-> "KeyError"]
         /\ UNCHANGED << _worlds, _worlds_stores, _current_world, c10d_globals,
                         created, modernVars >>
    ELSE LET r == set_world(_worlds, _current_world, c10d_globals, w) IN
         /\ _worlds_stores' = _worlds_stores \ {w}
         /\ _current_world' = r.current
         /\ c10d_globals' = r.globals
         /\ _worlds' = DictDel(_worlds, w)
         /\ lret' = [fn |-> "remove_world", world |-> w, exc |-> "none"]
         /\ UNCHANGED << created, modernVars >>

\* initialize_world(world_name, ...): add_world, set_world, then the
\* rendezvous, which stores the world's store when it succeeds (ok) and
\* raises otherwise.
LegacyInitializeWorld(w, ok) ==
    IF w \in DOMAIN _worlds
    THEN /\ lret' = [fn |-> "initialize_world", world |-> w,
                     exc |-> "ValueError"]
         /\ UNCHANGED << _worlds, _worlds_stores, _current_world, c10d_globals,
                         created, modernVars >>
    ELSE LET registry == DictSet(_worlds, w, C10dWorld(created))
             r == set_world(registry, _current_world, c10d_globals, w)
         IN  /\ created + 1 \in ObjectIds
             /\ _worlds' = registry
             /\ created' = created + 1
             /\ _current_world' = r.current
             /\ c10d_globals' = r.globals
             /\ _worlds_stores' = IF ok THEN _worlds_stores \cup {w}
                                        ELSE _worlds_stores
             /\ lret' = [fn |-> "initialize_world", world |-> w,
                         exc |-> IF ok THEN "none" ELSE "RuntimeError"]
             /\ UNCHANGED modernVars

LegacyNext ==
    \/ \E w \in Names : LegacyAddWorld(w)
    \/ \E w \in Names : LegacySetWorld(w)
    \/ \E w \in Names : LegacyRemoveWorld(w)
    \/ \E w \in Names, ok \in BOOLEAN : LegacyInitializeWorld(w, ok)

\* The set_world-based manager under every sequence of its calls.
LegacySpec == Init /\ [][LegacyNext]_vars

\* C39: in the set_world-based manager, when set_world(name) has returned
\* without an exception every global of the transport is the one of the
\* C10dWorld registered under name (also when name was removed and added
\* again) and name is the current world; when it has raised ValueError the
\* name is not registered and neither the current world nor a global changed.
C39_SetWorldInstallsRegisteredWorld ==
    [][ lret'.fn = "set_world" =>
          IF lret'.exc = "none"
          THEN /\ lret'.world \in DOMAIN _worlds'
               /\ _current_world' = lret'.world
               /\ \A g \in C10dGlobals :
                     c10d_globals'[g] = _worlds'[lret'.world]
          ELSE /\ lret'.exc = "ValueError"
               /\ lret'.world \notin DOMAIN _worlds
               /\ UNCHANGED << _current_world, c10d_globals >> ]_vars

\* C39, the part that holds: an unknown name gives ValueError and changes
\* nothing, and a name that was never removed gets its own C10dWorld.
C39_UnknownNameChangesNothing ==
    [][ (lret'.fn = "set_world" /\ lret'.exc # "none") =>
          /\ lret'.exc = "ValueError"
          /\ lret'.world \notin DOMAIN _worlds
          /\ UNCHANGED << _worlds, _worlds_stores, _current_world,
                          c10d_globals, created >> ]_vars

\* set_world has returned normally for a name that was removed and added
\* again, and the globals are still those of the removed C10dWorld.
C39_StaleGlobals ==
    /\ lret = [fn |-> "set_world", world |-> "world1", exc |-> "none"]
    /\ "world1" \in DOMAIN _worlds
    /\ _worlds["world1"] = 2
    /\ c10d_globals["_pg_map"] = 1
====
